---- MODULE Spec2Model ----
(***************************************************************************)
(* Model of src/graphql/mutations/CreateOrUpdateArticleReplyFeedback.ts:   *)
(* the CreateOrUpdateArticleReplyFeedback mutation (resolve) and the       *)
(* exported updateArticleReplyByFeedbacks, running as concurrent requests  *)
(* against the articlereplyfeedbacks and articles indices.                 *)
(***************************************************************************)
EXTENDS Integers, Sequences, FiniteSets, TLC

VARIABLES
  articlereplyfeedbacks, \* index 'articlereplyfeedbacks': document id -> document
  articles,              \* index 'articles': article id -> document
  clock,                 \* the wall clock read by new Date()
  calls,                 \* per invocation: position and local variables
  lastWrite              \* history, per (articleId, replyId): the invocation whose
                         \* scripted update last wrote the entry (by, 0: none yet),
                         \* whether no upsert on the pair has followed the reload
                         \* it was computed from (fresh), and whether a request on
                         \* another reply of the article had its update pending
                         \* when it was applied (racing)

vars == <<articlereplyfeedbacks, articles, clock, calls, lastWrite>>

----------------------------------------------------------------------------
(* Bounds *)

\* Number of invocations (each slot is one request, used once).
MaxCalls == 2

\* Longest feedbacks array handed directly to updateArticleReplyByFeedbacks.
MaxLen == 3

Calls == 1..MaxCalls

----------------------------------------------------------------------------
(* Values *)

Null == "<null>"      \* null / undefined / field not present
Unset == Null

\* Article ids: A1 is in the index, A2 is not.
ArticleIds == {"A1", "A2"}
\* Reply ids: R1 and R2 are attached to A1; R3 is a reply that is not.
ReplyIds == {"R1", "R2", "R3"}
Votes == {-1, 0, 1}
Comments == {Null, "c"}
Statuses == {"NORMAL", "BLOCKED", "DELETED"}

\* The acting user of a request (ResolverContext.user); NoUser is a request
\* without one. The same person may come with or without a blockedReason.
NoUser == [id |-> Null, appId |-> Null, blockedReason |-> Null]
Users ==
  { [id |-> "U1", appId |-> "APP", blockedReason |-> Null],
    [id |-> "U2", appId |-> "APP", blockedReason |-> Null],
    [id |-> "U2", appId |-> "APP", blockedReason |-> "spam"] }

\* Acting users whose id or appId holds an underscore: both are strings the
\* client and its backend app supply, and resolve takes them as they come.
IdUsers ==
  { [id |-> "U_", appId |-> "APP", blockedReason |-> Null],
    [id |-> "U", appId |-> "_APP", blockedReason |-> Null],
    [id |-> "U", appId |-> "APP", blockedReason |-> Null] }

\* Index 'replies' (never written by this module).
replies ==
  [r \in ReplyIds |-> [userId |-> "author-" \o r, text |-> "reply " \o r]]

ArticleReplyEntry(replyId, pos, neg) ==
  [ replyId |-> replyId,
    userId |-> "connector-" \o replyId,
    appId |-> "APP",
    status |-> "NORMAL",
    positiveFeedbackCount |-> pos,
    negativeFeedbackCount |-> neg ]

ArticleDoc(c1, c2) ==
  [ text |-> "article text",
    replyRequestCount |-> 1,
    articleReplies |-> << ArticleReplyEntry("R1", c1[1], c1[2]),
                          ArticleReplyEntry("R2", c2[1], c2[2]) >> ]

----------------------------------------------------------------------------
(* Pure functions *)

getArticleReplyFeedbackId(articleId, replyId, userId, appId) ==
  articleId \o "__" \o replyId \o "__" \o userId \o "__" \o appId

\* util/user assertUser: TRUE when it does not throw.
assertUser(user) == user.id # Null /\ user.appId # Null

\* util/user getContentDefaultStatus.
getContentDefaultStatus(user) ==
  IF user.blockedReason # Null THEN "BLOCKED" ELSE "NORMAL"

\* Mutant: the status filter is left out.
FilterNothing(feedbacks) == feedbacks

\* feedbacks.filter(({ status }) => status === 'NORMAL')
FilterNormal(feedbacks) == SelectSeq(feedbacks, LAMBDA f : f.status = "NORMAL")

\* Mutant: the score itself is added to the negative count.
ReduceStepAddsScore(agg, score) ==
  IF score = 1 THEN <<agg[1] + 1, agg[2]>>
  ELSE IF score = -1 THEN <<agg[1], agg[2] + score>>
  ELSE agg

\* Mutant: the else-if branch for score -1 is missing.
ReduceStepNoNegative(agg, score) ==
  IF score = 1 THEN <<agg[1] + 1, agg[2]>> ELSE agg

\* The reducer's callback: (agg, { score }) => ...
ReduceStep(agg, score) ==
  IF score = 1 THEN <<agg[1] + 1, agg[2]>>
  ELSE IF score = -1 THEN <<agg[1], agg[2] + 1>>
  ELSE agg

RECURSIVE Reduce(_, _)
Reduce(agg, feedbacks) ==
  IF feedbacks = <<>> THEN agg
  ELSE Reduce(ReduceStep(agg, Head(feedbacks).score), Tail(feedbacks))

\* [positiveFeedbackCount, negativeFeedbackCount] of a feedbacks array.
CountFeedbacks(feedbacks) == Reduce(<<0, 0>>, FilterNormal(feedbacks))

\* The script's loop: the first idx whose replyId equals params.replyId, or
\* replyCount when there is none.
RECURSIVE FindIdx(_, _, _)
FindIdx(articleReplies, replyId, idx) ==
  IF idx > Len(articleReplies) THEN idx
  ELSE IF articleReplies[idx].replyId = replyId THEN idx
  ELSE FindIdx(articleReplies, replyId, idx + 1)

\* Mutant: the loop's match is ignored and every entry gets the counts.
ScriptEveryEntry(source, replyId, positiveFeedbackCount, negativeFeedbackCount) ==
  LET idx == FindIdx(source.articleReplies, replyId, 1)
  IN IF idx = Len(source.articleReplies) + 1
     THEN <<"none", source>>
     ELSE <<"index",
            [source EXCEPT
               !.articleReplies =
                  [i \in 1..Len(@) |->
                     [@[i] EXCEPT
                        !.positiveFeedbackCount = positiveFeedbackCount,
                        !.negativeFeedbackCount = negativeFeedbackCount]]]>>

\* Mutant: without the idx === replyCount guard the last entry is written.
ScriptNoGuard(source, replyId, positiveFeedbackCount, negativeFeedbackCount) ==
  LET found == FindIdx(source.articleReplies, replyId, 1)
      idx == IF found = Len(source.articleReplies) + 1 THEN found - 1 ELSE found
  IN <<"index",
       [source EXCEPT
          !.articleReplies[idx].positiveFeedbackCount = positiveFeedbackCount,
          !.articleReplies[idx].negativeFeedbackCount = negativeFeedbackCount]>>

\* Mutant: the two put calls write each other's parameter.
ScriptSwapped(source, replyId, positiveFeedbackCount, negativeFeedbackCount) ==
  LET idx == FindIdx(source.articleReplies, replyId, 1)
  IN IF idx = Len(source.articleReplies) + 1
     THEN <<"none", source>>
     ELSE <<"index",
            [source EXCEPT
               !.articleReplies[idx].positiveFeedbackCount = negativeFeedbackCount,
               !.articleReplies[idx].negativeFeedbackCount = positiveFeedbackCount]>>

\* Mutant: the reply list is rebuilt, and the entries that do not match come
\* back with their counters at zero.
ScriptResetsOthers(source, replyId, positiveFeedbackCount, negativeFeedbackCount) ==
  LET idx == FindIdx(source.articleReplies, replyId, 1)
  IN IF idx = Len(source.articleReplies) + 1
     THEN <<"none", source>>
     ELSE <<"index",
            [source EXCEPT
               !.articleReplies =
                  [i \in 1..Len(@) |->
                     IF i = idx
                     THEN [@[i] EXCEPT
                             !.positiveFeedbackCount = positiveFeedbackCount,
                             !.negativeFeedbackCount = negativeFeedbackCount]
                     ELSE [@[i] EXCEPT !.positiveFeedbackCount = 0,
                                       !.negativeFeedbackCount = 0]]]>>

\* The painless script of the articles update: <<ctx.op, ctx._source>>.
Script(source, replyId, positiveFeedbackCount, negativeFeedbackCount) ==
  LET idx == FindIdx(source.articleReplies, replyId, 1)
  IN IF idx = Len(source.articleReplies) + 1
     THEN <<"none", source>>
     ELSE <<"index",
            [source EXCEPT
               !.articleReplies[idx].positiveFeedbackCount = positiveFeedbackCount,
               !.articleReplies[idx].negativeFeedbackCount = negativeFeedbackCount]>>

\* Array.prototype.find on articleReplies by replyId: <<>> or <<entry>>.
FindArticleReply(articleReplies, replyId) ==
  LET idx == FindIdx(articleReplies, replyId, 1)
  IN IF idx = Len(articleReplies) + 1 THEN <<>> ELSE <<articleReplies[idx]>>

\* The document the upsert request inserts when the id is new.
UpsertDoc(articleId, replyId, user, vote, comment, now) ==
  [ articleId |-> articleId,
    replyId |-> replyId,
    userId |-> user.id,
    appId |-> user.appId,
    score |-> vote,
    createdAt |-> now,
    updatedAt |-> now,
    comment |-> comment,
    status |-> getContentDefaultStatus(user),
    replyUserId |-> Unset,
    articleReplyUserId |-> Unset ]

\* Mutant: createdAt is part of the partial document too.
MergeDocResetsCreatedAt(old, vote, comment, now) ==
  [old EXCEPT !.score = vote, !.comment = comment, !.updatedAt = now,
              !.createdAt = now]

\* Mutant: the merge writes a status again, as the insert does.
MergeDocResetsStatus(old, vote, comment, now) ==
  [old EXCEPT !.score = vote, !.comment = comment, !.updatedAt = now,
              !.status = "NORMAL"]

\* Mutant: the merge drops the author ids the record carried.
MergeDocClearsAuthors(old, vote, comment, now) ==
  [old EXCEPT !.score = vote, !.comment = comment, !.updatedAt = now,
              !.replyUserId = Unset, !.articleReplyUserId = Unset]

\* The partial document the upsert request merges into an existing one.
MergeDoc(old, vote, comment, now) ==
  [old EXCEPT !.score = vote, !.comment = comment, !.updatedAt = now]

\* articleReplyFeedbacksLoader: ids of every feedback of the pair.
FeedbackIdsOf(articleId, replyId) ==
  { id \in DOMAIN articlereplyfeedbacks :
      /\ articlereplyfeedbacks[id].articleId = articleId
      /\ articlereplyfeedbacks[id].replyId = replyId }

\* Every order in which a search can return the documents with these ids.
Orderings(ids) ==
  { s \in [1..Cardinality(ids) -> ids] :
      \A i, j \in 1..Cardinality(ids) : i # j => s[i] # s[j] }

----------------------------------------------------------------------------
(* Invocations *)

IdleCall ==
  [ pc |-> "idle", direct |-> FALSE,
    articleId |-> Null, replyId |-> Null, vote |-> 0, comment |-> Null,
    user |-> NoUser, now |-> 0, id |-> Null, result |-> Null,
    replyUserId |-> Unset, articleReplyUserId |-> Unset,
    feedbacks |-> <<>>, snapshot |-> {}, params |-> <<0, 0>>,
    overlapped |-> FALSE, reconciled |-> FALSE, repeats |-> FALSE,
    ret |-> <<>>, err |-> Null ]

\* What is left of an invocation once it has returned or thrown: the locals of
\* resolve are gone; a direct caller of the projector still holds its arguments.
Ended(c) ==
  IF calls[c].direct
  THEN [IdleCall EXCEPT !.direct = TRUE, !.articleId = calls[c].articleId,
                        !.replyId = calls[c].replyId,
                        !.feedbacks = calls[c].feedbacks]
  ELSE IdleCall

\* The invocation throws err.
Fail(c, err) ==
  [calls EXCEPT ![c] = [Ended(c) EXCEPT !.pc = "failed", !.err = err]]

\* Mutant: resolve returns the entry without the articleId.
ReturnBareEntry(c, ret, staleBefore) ==
  [calls EXCEPT ![c] = [Ended(c) EXCEPT
      !.pc = "done",
      !.ret = IF calls[c].direct THEN ret
              ELSE << [articleId |-> Null, entry |-> ret[1].entry] >>,
      !.reconciled = staleBefore /\ ~calls[c].overlapped,
      !.repeats = calls[c].repeats]]

\* The invocation returns ret. reconciled (history): the entry's counts differed
\* from the stored tallies before the update, and no other upsert on the pair
\* fell between this invocation's reload and its update.
Return(c, ret, staleBefore) ==
  [calls EXCEPT ![c] = [Ended(c) EXCEPT !.pc = "done", !.ret = ret,
                                        !.reconciled =
                                           staleBefore /\ ~calls[c].overlapped,
                                        !.repeats = calls[c].repeats]]

\* Mutant: assertUser is not called.
StartWithoutAssert(c, requests) ==
  /\ calls[c].pc = "idle"
  /\ \A d \in Calls : d < c => calls[d].pc # "idle"
  /\ \E rq \in requests :
       \E now \in {clock, clock + 1} :
         /\ clock' = now
         /\ calls' = [calls EXCEPT
               ![c] = [@ EXCEPT
                  !.pc = "upsert", !.articleId = rq.articleId,
                  !.replyId = rq.replyId, !.vote = rq.vote,
                  !.comment = rq.comment, !.user = rq.user,
                  !.now = now,
                  !.id = getArticleReplyFeedbackId(
                           rq.articleId, rq.replyId,
                           rq.user.id, rq.user.appId)]]
  /\ UNCHANGED <<articlereplyfeedbacks, articles, lastWrite>>

\* resolve, lines 125-136: assertUser, now, id. A request without a user
\* throws before its arguments are read.
StartWith(c, requests) ==
  /\ calls[c].pc = "idle"
  /\ \A d \in Calls : d < c => calls[d].pc # "idle"
  /\ \E rq \in requests :
       IF ~assertUser(rq.user)
       THEN /\ calls' = Fail(c, "Unauthenticated")
            /\ UNCHANGED clock
       ELSE \E now \in {clock, clock + 1} :
              /\ clock' = now
              /\ calls' = [calls EXCEPT
                    ![c] = [@ EXCEPT
                       !.pc = "upsert", !.articleId = rq.articleId,
                       !.replyId = rq.replyId, !.vote = rq.vote,
                       !.comment = rq.comment, !.user = rq.user,
                       !.now = now,
                       !.id = getArticleReplyFeedbackId(
                                rq.articleId, rq.replyId,
                                rq.user.id, rq.user.appId)]]
  /\ UNCHANGED <<articlereplyfeedbacks, articles, lastWrite>>

\* The mutation's arguments and context: (articleId, replyId, vote, comment, user).
RequestsOf(articleIds, replyIds, votes, comments, users) ==
  [articleId : articleIds, replyId : replyIds, vote : votes,
   comment : comments, user : users]

\* Requests of one person, or of nobody, on an attached and on an unattached
\* reply.
Requests ==
  RequestsOf({"A1"}, {"R1"}, {0, 1}, Comments, {u \in Users : u.id = "U1"})
  \cup RequestsOf({"A1"}, {"R3"}, {1}, {Null}, {u \in Users : u.id = "U1"})
  \cup RequestsOf({"A1"}, {"R1"}, {0}, {Null}, {NoUser})

\* Requests of several people, blocked or not, on the two attached replies.
RaceRequests ==
  RequestsOf({"A1"}, {"R1"}, {-1, 1}, {Null}, {u \in Users : u.id = "U1"})
  \cup RequestsOf({"A1"}, {"R1"}, {1}, {Null}, {u \in Users : u.id = "U2"})
  \cup RequestsOf({"A1"}, {"R2"}, {-1}, {Null},
                  {u \in Users : u.blockedReason = Null})

\* Requests of users whose ids hold underscores, on the two attached replies.
IdRequests ==
  RequestsOf({"A1"}, {"R1"}, {-1, 1}, {Null}, IdUsers)
  \cup RequestsOf({"A1"}, {"R2"}, {1}, {Null}, {u \in IdUsers : u.id = "U"})

Start(c) == StartWith(c, Requests)

StartIds(c) == StartWith(c, IdRequests)

StartRace(c) == StartWith(c, RaceRequests)

\* What an upsert of invocation c means to the other invocations on its pair:
\* one whose snapshot is taken and whose script update is pending is
\* overlapped, and none of them is any longer alone with its repeated vote.
MarkOverlapped(cs, c) ==
  [d \in Calls |->
     IF /\ d # c
        /\ cs[d].pc \in {"load", "project"}
        /\ cs[d].articleId = cs[c].articleId
        /\ cs[d].replyId = cs[c].replyId
     THEN [cs[d] EXCEPT !.overlapped = @ \/ cs[d].pc = "project",
                        !.repeats = FALSE]
     ELSE cs[d]]

\* Invocation c, about to upsert, repeats the vote its key already holds, after
\* a request on the pair that returned counts of the records as they are now
\* stored, and while no other request on the pair is in progress.
Repeats(c) ==
  LET l == calls[c]
      p == <<l.articleId, l.replyId>>
  IN /\ l.id \in DOMAIN articlereplyfeedbacks
     /\ articlereplyfeedbacks[l.id].score = l.vote
     /\ articlereplyfeedbacks[l.id].comment = l.comment
     /\ lastWrite[p].by # 0
     /\ lastWrite[p].fresh
     /\ \A d \in Calls :
          (d # c /\ calls[d].pc \in {"upsert", "lookup", "patch", "load",
                                     "project"})
            => <<calls[d].articleId, calls[d].replyId>> # p

\* Mutant: the author back-fill follows every upsert, not only a 'created' one.
UpsertAlwaysBackfill(c) ==
  LET l == calls[c] IN
  /\ l.pc = "upsert"
  /\ IF l.id \in DOMAIN articlereplyfeedbacks
     THEN LET old == articlereplyfeedbacks[l.id]
              new == MergeDoc(old, l.vote, l.comment, l.now)
          IN /\ articlereplyfeedbacks' =
                  [articlereplyfeedbacks EXCEPT ![l.id] = new]
             /\ calls' = MarkOverlapped(
                  [calls EXCEPT ![c].pc = "lookup",
                                ![c].result =
                                   IF new = old THEN "noop" ELSE "updated",
                                ![c].repeats = Repeats(c)], c)
     ELSE /\ articlereplyfeedbacks' =
               (l.id :> UpsertDoc(l.articleId, l.replyId, l.user, l.vote,
                                  l.comment, l.now)) @@ articlereplyfeedbacks
          /\ calls' = MarkOverlapped(
               [calls EXCEPT ![c].pc = "lookup", ![c].result = "created"], c)
  /\ lastWrite' = [lastWrite EXCEPT ![<<l.articleId, l.replyId>>].fresh = FALSE]
  /\ UNCHANGED <<articles, clock>>

\* Mutant: a vote that finds its record without author ids runs the back-fill
\* again.
UpsertRepairsAuthors(c) ==
  LET l == calls[c] IN
  /\ l.pc = "upsert"
  /\ IF l.id \in DOMAIN articlereplyfeedbacks
     THEN LET old == articlereplyfeedbacks[l.id]
              new == MergeDoc(old, l.vote, l.comment, l.now)
          IN /\ articlereplyfeedbacks' =
                  [articlereplyfeedbacks EXCEPT ![l.id] = new]
             /\ calls' = MarkOverlapped(
                  [calls EXCEPT ![c].pc =
                                   IF old.replyUserId = Unset
                                   THEN "lookup" ELSE "load",
                                ![c].result =
                                   IF new = old THEN "noop" ELSE "updated",
                                ![c].repeats = Repeats(c)], c)
     ELSE /\ articlereplyfeedbacks' =
               (l.id :> UpsertDoc(l.articleId, l.replyId, l.user, l.vote,
                                  l.comment, l.now)) @@ articlereplyfeedbacks
          /\ calls' = MarkOverlapped(
               [calls EXCEPT ![c].pc = "lookup", ![c].result = "created"], c)
  /\ lastWrite' = [lastWrite EXCEPT ![<<l.articleId, l.replyId>>].fresh = FALSE]
  /\ UNCHANGED <<articles, clock>>

\* resolve, lines 138-165: client.update with doc / upsert, refresh 'true'.
Upsert(c) ==
  LET l == calls[c] IN
  /\ l.pc = "upsert"
  /\ IF l.id \in DOMAIN articlereplyfeedbacks
     THEN LET old == articlereplyfeedbacks[l.id]
              new == MergeDoc(old, l.vote, l.comment, l.now)
          IN /\ articlereplyfeedbacks' =
                  [articlereplyfeedbacks EXCEPT ![l.id] = new]
             /\ calls' = MarkOverlapped(
                  [calls EXCEPT ![c].pc = "load",
                                ![c].result =
                                   IF new = old THEN "noop" ELSE "updated",
                                ![c].repeats = Repeats(c)], c)
     ELSE /\ articlereplyfeedbacks' =
               (l.id :> UpsertDoc(l.articleId, l.replyId, l.user, l.vote,
                                  l.comment, l.now)) @@ articlereplyfeedbacks
          /\ calls' = MarkOverlapped(
               [calls EXCEPT ![c].pc = "lookup", ![c].result = "created"], c)
  /\ lastWrite' = [lastWrite EXCEPT ![<<l.articleId, l.replyId>>].fresh = FALSE]
  /\ UNCHANGED <<articles, clock>>

\* Mutant: the `if (!ar) throw` is missing and the patch goes ahead.
LookupNoCheck(c) ==
  LET l == calls[c] IN
  /\ l.pc = "lookup"
  /\ IF l.replyId \notin DOMAIN replies \/ l.articleId \notin DOMAIN articles
     THEN calls' = Fail(c, "NotFound")
     ELSE LET ar == FindArticleReply(articles[l.articleId].articleReplies,
                                     l.replyId)
          IN calls' = [calls EXCEPT
                 ![c].pc = "patch",
                 ![c].replyUserId = replies[l.replyId].userId,
                 ![c].articleReplyUserId =
                    IF ar = <<>> THEN Unset ELSE ar[1].userId]
  /\ UNCHANGED <<articlereplyfeedbacks, articles, clock, lastWrite>>

\* resolve, lines 169-190: docLoader.loadMany of the reply and the article,
\* then the article-reply's own author.
Lookup(c) ==
  LET l == calls[c] IN
  /\ l.pc = "lookup"
  /\ IF l.replyId \notin DOMAIN replies \/ l.articleId \notin DOMAIN articles
     THEN calls' = Fail(c, "NotFound")
     ELSE LET ar == FindArticleReply(articles[l.articleId].articleReplies,
                                     l.replyId)
          IN IF ar = <<>>
             THEN calls' = Fail(c, "NotFound")
             ELSE calls' = [calls EXCEPT
                    ![c].pc = "patch",
                    ![c].replyUserId = replies[l.replyId].userId,
                    ![c].articleReplyUserId = ar[1].userId]
  /\ UNCHANGED <<articlereplyfeedbacks, articles, clock, lastWrite>>

\* resolve, lines 192-202: client.update with doc {replyUserId, articleReplyUserId}.
Patch(c) ==
  LET l == calls[c] IN
  /\ l.pc = "patch"
  /\ articlereplyfeedbacks' =
       [articlereplyfeedbacks EXCEPT
          ![l.id].replyUserId = l.replyUserId,
          ![l.id].articleReplyUserId = l.articleReplyUserId]
  /\ calls' = [calls EXCEPT ![c].pc = "load"]
  /\ UNCHANGED <<articles, clock, lastWrite>>

\* Mutant: the reload does not see the document this request just wrote (the
\* upsert did not refresh the index).
LoadBeforeRefresh(c) ==
  LET l == calls[c]
      ids == FeedbackIdsOf(l.articleId, l.replyId) \ {l.id}
  IN
  /\ l.pc = "load"
  /\ \E order \in Orderings(ids) :
       LET feedbacks == [i \in 1..Cardinality(ids) |->
                           articlereplyfeedbacks[order[i]]]
       IN calls' = [calls EXCEPT
             ![c].pc = "project",
             ![c].snapshot = {articlereplyfeedbacks[id] : id \in ids},
             ![c].params = CountFeedbacks(feedbacks),
             ![c].overlapped = FALSE]
  /\ UNCHANGED <<articlereplyfeedbacks, articles, clock, lastWrite>>

\* resolve, lines 205-214, and updateArticleReplyByFeedbacks, lines 42-54:
\* the loader's result (in whatever order the search returns it), then the
\* counts, computed before the update request is sent. The array is consumed
\* at once; its documents are kept in snapshot.
Load(c) ==
  LET l == calls[c]
      ids == FeedbackIdsOf(l.articleId, l.replyId)
  IN
  /\ l.pc = "load"
  /\ \E order \in Orderings(ids) :
       LET feedbacks == [i \in 1..Cardinality(ids) |->
                           articlereplyfeedbacks[order[i]]]
       IN calls' = [calls EXCEPT
             ![c].pc = "project",
             ![c].snapshot = {articlereplyfeedbacks[id] : id \in ids},
             ![c].params = CountFeedbacks(feedbacks),
             ![c].overlapped = FALSE]
  /\ UNCHANGED <<articlereplyfeedbacks, articles, clock, lastWrite>>

\* The counts of the pair's entry in the article, <<>> when there is no entry.
EntryCounts(arts, articleId, replyId) ==
  IF articleId \notin DOMAIN arts THEN <<>>
  ELSE LET ar == FindArticleReply(arts[articleId].articleReplies, replyId)
       IN IF ar = <<>> THEN <<>>
          ELSE <<ar[1].positiveFeedbackCount, ar[1].negativeFeedbackCount>>

\* The tallies of the documents now stored for the pair.
StoredCounts(fbs, articleId, replyId) ==
  LET docs == { fbs[id] : id \in { i \in DOMAIN fbs :
                   fbs[i].articleId = articleId /\ fbs[i].replyId = replyId } }
  IN << Cardinality({d \in docs : d.status = "NORMAL" /\ d.score = 1}),
        Cardinality({d \in docs : d.status = "NORMAL" /\ d.score = -1}) >>

\* updateArticleReplyByFeedbacks, lines 56-98, and resolve, lines 216-223:
\* the scripted update of the article, the check of its result, the return.
ProjectorUpdate(c) ==
  LET l == calls[c] IN
  /\ l.pc = "project"
  /\ IF l.articleId \notin DOMAIN articles
     THEN \* document_missing_exception: client.update rejects
          /\ calls' = Fail(c, "NotFound")
          /\ UNCHANGED <<articles, lastWrite>>
     ELSE LET out == Script(articles[l.articleId], l.replyId,
                            l.params[1], l.params[2])
              result == IF out[1] = "none" THEN "noop" ELSE "updated"
              found == FindArticleReply(out[2].articleReplies, l.replyId)
          IN IF result # "updated"
             THEN /\ calls' = Fail(c, "CannotUpdate")
                  /\ UNCHANGED <<articles, lastWrite>>
             ELSE /\ articles' = [articles EXCEPT ![l.articleId] = out[2]]
                  /\ lastWrite' =
                       [lastWrite EXCEPT ![<<l.articleId, l.replyId>>] =
                          [by |-> c, fresh |-> ~l.overlapped,
                           racing |-> \E d \in Calls :
                              /\ calls[d].pc = "project"
                              /\ calls[d].articleId = l.articleId
                              /\ calls[d].replyId # l.replyId]]
                  /\ calls' =
                       IF found = <<>>
                       THEN Fail(c, "CannotGetUpdated")
                       ELSE Return(c,
                              IF l.direct THEN found
                              ELSE << [articleId |-> l.articleId,
                                       entry |-> found[1]] >>,
                              EntryCounts(articles, l.articleId, l.replyId)
                                # StoredCounts(articlereplyfeedbacks,
                                               l.articleId, l.replyId))
  /\ UNCHANGED <<articlereplyfeedbacks, clock>>

\* Any awaited request of resolve may reject (store unavailable, version
\* conflict, client gone): nothing is written and resolve throws.
StorageFailure(c) ==
  /\ calls[c].pc \in {"upsert", "lookup", "patch", "load", "project"}
  /\ calls' = Fail(c, "StorageError")
  /\ UNCHANGED <<articlereplyfeedbacks, articles, clock, lastWrite>>

\* A feedback document as a direct caller of the projector may hold it.
FeedbackOf(status, score) ==
  [ articleId |-> "A1", replyId |-> "R1", userId |-> "U", appId |-> "APP",
    score |-> score, createdAt |-> 0, updatedAt |-> 0, comment |-> Null,
    status |-> status, replyUserId |-> Unset, articleReplyUserId |-> Unset ]

FeedbackArrays ==
  UNION { [1..n -> {FeedbackOf(st, sc) : st \in Statuses, sc \in Votes}] :
            n \in 0..MaxLen }

\* updateArticleReplyByFeedbacks called on its own (it is exported),
\* lines 37-54: the arguments and the counts.
InvokeProjector(c) ==
  /\ \A d \in Calls : c <= d
  /\ calls[c].pc = "idle"
  /\ \E articleId \in ArticleIds, replyId \in ReplyIds,
        feedbacks \in FeedbackArrays :
       calls' = [calls EXCEPT
          ![c].pc = "project", ![c].direct = TRUE,
          ![c].articleId = articleId, ![c].replyId = replyId,
          ![c].feedbacks = feedbacks,
          ![c].params = CountFeedbacks(feedbacks)]
  /\ UNCHANGED <<articlereplyfeedbacks, articles, clock, lastWrite>>

----------------------------------------------------------------------------
(* Specifications *)

Pairs == ArticleIds \X ReplyIds

InitCommon ==
  /\ articlereplyfeedbacks = <<>>
  /\ clock = 1
  /\ calls = [c \in Calls |-> IdleCall]
  /\ lastWrite = [p \in Pairs |-> [by |-> 0, fresh |-> FALSE, racing |-> FALSE]]

\* Requests of the mutation against a fresh article.
Init ==
  /\ InitCommon
  /\ articles = [a \in {"A1"} |-> ArticleDoc(<<0, 0>>, <<0, 0>>)]

Next ==
  \E c \in Calls :
    \/ Start(c)
    \/ Upsert(c)
    \/ Lookup(c)
    \/ Patch(c)
    \/ Load(c)
    \/ ProjectorUpdate(c)
    \/ StorageFailure(c)

Spec == Init /\ [][Next]_vars

\* Concurrent requests while every store answers.
NextRace ==
  \E c \in Calls :
    \/ StartRace(c)
    \/ Upsert(c)
    \/ Lookup(c)
    \/ Patch(c)
    \/ Load(c)
    \/ ProjectorUpdate(c)

SpecRace == Init /\ [][NextRace]_vars

\* Requests of users whose ids hold underscores, while every store answers.
NextIds ==
  \E c \in Calls :
    \/ StartIds(c)
    \/ Upsert(c)
    \/ Lookup(c)
    \/ Patch(c)
    \/ Load(c)
    \/ ProjectorUpdate(c)

SpecIds == Init /\ [][NextIds]_vars

\* Direct calls of updateArticleReplyByFeedbacks on an article whose entries
\* already carry counts.
InitialCounts == {<<0, 0>>, <<2, 1>>}

InitProjector ==
  /\ InitCommon
  /\ \E c1 \in InitialCounts, c2 \in InitialCounts :
       articles = [a \in {"A1"} |-> ArticleDoc(c1, c2)]

NextProjector ==
  \E c \in Calls :
    \/ InvokeProjector(c)
    \/ ProjectorUpdate(c)

SpecProjector == InitProjector /\ [][NextProjector]_vars

----------------------------------------------------------------------------
(* Properties of updateArticleReplyByFeedbacks, under SpecProjector *)

\* The tallies of an array, counted over its positions.
ArrayCounts(feedbacks) ==
  << Cardinality({i \in 1..Len(feedbacks) :
        feedbacks[i].status = "NORMAL" /\ feedbacks[i].score = 1}),
     Cardinality({i \in 1..Len(feedbacks) :
        feedbacks[i].status = "NORMAL" /\ feedbacks[i].score = -1}) >>

\* C1: for every array of feedbacks handed to updateArticleReplyByFeedbacks,
\* in whatever order, the counts it computes, writes to the entry and returns
\* are the number of NORMAL records with score 1 and the number of NORMAL
\* records with score -1; other statuses and score 0 add to neither.
C1_CountCorrectness ==
  \A c \in Calls :
    calls[c].direct =>
      /\ calls[c].pc = "project" =>
           calls[c].params = ArrayCounts(calls[c].feedbacks)
      /\ calls[c].pc = "done" =>
           /\ EntryCounts(articles, calls[c].articleId, calls[c].replyId)
                = ArrayCounts(calls[c].feedbacks)
           /\ << calls[c].ret[1].positiveFeedbackCount,
                 calls[c].ret[1].negativeFeedbackCount >>
                = ArrayCounts(calls[c].feedbacks)

\* A returned direct call whose array mixes a NORMAL +1, a NORMAL 0 and a
\* BLOCKED +1, in that order or another.
C1_Witness ==
  \E c \in Calls :
    /\ calls[c].direct
    /\ calls[c].pc = "done"
    /\ Len(calls[c].feedbacks) = 3
    /\ calls[c].feedbacks[1].status = "BLOCKED" /\ calls[c].feedbacks[1].score = 1
    /\ calls[c].feedbacks[2].status = "NORMAL" /\ calls[c].feedbacks[2].score = 0
    /\ calls[c].feedbacks[3].status = "NORMAL" /\ calls[c].feedbacks[3].score = 1
    /\ EntryCounts(articles, "A1", calls[c].replyId) = <<1, 0>>

\* Everything of a reply entry but its two counters.
EntryFrame(entry) ==
  [entry EXCEPT !.positiveFeedbackCount = 0, !.negativeFeedbackCount = 0]

\* Everything of an article document but its reply entries.
ArticleFrame(doc) == [doc EXCEPT !.articleReplies = <<>>]

\* A step in which invocation c's scripted update is applied and reported 'updated'.
UpdatedBy(c) == calls[c].pc = "project" /\ calls'[c].pc = "done"

C5_Step ==
  \A c \in Calls :
    UpdatedBy(c) =>
      LET a == calls[c].articleId
          r == calls[c].replyId
      IN /\ DOMAIN articles' = DOMAIN articles
         /\ \A x \in DOMAIN articles : x # a => articles'[x] = articles[x]
         /\ ArticleFrame(articles'[a]) = ArticleFrame(articles[a])
         /\ Len(articles'[a].articleReplies) = Len(articles[a].articleReplies)
         /\ \A i \in 1..Len(articles[a].articleReplies) :
              LET old == articles[a].articleReplies[i]
                  new == articles'[a].articleReplies[i]
              IN IF old.replyId = r
                 THEN EntryFrame(new) = EntryFrame(old)
                 ELSE new = old

\* C5: a projector update whose reply entry exists changes only
\* positiveFeedbackCount and negativeFeedbackCount of the entry with that
\* replyId: the other entries, the other fields of that entry and the other
\* fields of the article (and every other article) stay as they were.
C5_Isolation == [][C5_Step]_vars

\* R1's counts were rewritten by a direct call while R2 carries counts of its own.
C5_Witness ==
  \E c \in Calls :
    /\ calls[c].direct
    /\ calls[c].pc = "done"
    /\ calls[c].replyId = "R1"
    /\ EntryCounts(articles, "A1", "R1") = <<1, 1>>
    /\ EntryCounts(articles, "A1", "R2") = <<2, 1>>

\* The reply has no entry in an article that exists.
NoEntry(articleId, replyId) ==
  /\ articleId \in DOMAIN articles
  /\ FindArticleReply(articles[articleId].articleReplies, replyId) = <<>>

\* C10 as claimed: run for a replyId with no entry in the existing article,
\* updateArticleReplyByFeedbacks does not raise and leaves the article as it was.
C10_Original ==
  \A c \in Calls :
    (calls[c].direct /\ NoEntry(calls[c].articleId, calls[c].replyId)) =>
      calls[c].pc # "failed"

C10_Step ==
  \A c \in Calls :
    ( /\ calls[c].pc = "project"
      /\ calls'[c].pc # "project"
      /\ NoEntry(calls[c].articleId, calls[c].replyId) ) =>
        /\ calls'[c].pc = "failed"
        /\ calls'[c].err = "CannotUpdate"
        /\ articles' = articles

\* C10, amended: run for a replyId with no entry in the existing article, the
\* scripted update is a no-op that leaves the article document unchanged, and
\* updateArticleReplyByFeedbacks then raises, because the update's result is
\* 'noop' and not 'updated'.
C10_NoopRaises == [][C10_Step]_vars

\* A direct call for R3, which A1 does not hold, has thrown.
C10_Witness ==
  \E c \in Calls :
    /\ calls[c].direct
    /\ calls[c].pc = "failed"
    /\ calls[c].err = "CannotUpdate"
    /\ calls[c].replyId = "R3"
    /\ calls[c].articleId = "A1"
    /\ Len(calls[c].feedbacks) > 0

----------------------------------------------------------------------------
(* Properties of the mutation, under Spec *)

\* The key of a feedback document.
KeyOf(doc) == <<doc.articleId, doc.replyId, doc.userId, doc.appId>>

\* The ids of the documents stored for a key.
RecordsOfKey(fbs, key) == {id \in DOMAIN fbs : KeyOf(fbs[id]) = key}

\* A step in which invocation c's upsert request is applied.
UpsertedBy(c) ==
  calls[c].pc = "upsert" /\ calls'[c].pc \in {"lookup", "load"}

\* The invocation is between its start and its end.
InFlight(c) == calls[c].pc \in {"upsert", "lookup", "patch", "load", "project"}

\* The (articleId, replyId, userId, appId) a request votes as.
TupleOf(l) == <<l.articleId, l.replyId, l.user.id, l.user.appId>>

\* The request's upsert has been applied.
Upserted(c) == calls[c].pc \in {"lookup", "patch", "load", "project"}

C2_Step ==
  /\ DOMAIN articlereplyfeedbacks \subseteq DOMAIN articlereplyfeedbacks'
  /\ \A c \in Calls :
       UpsertedBy(c) =>
         LET l == calls[c]
             key == <<l.articleId, l.replyId, l.user.id, l.user.appId>>
             before == RecordsOfKey(articlereplyfeedbacks, key)
             after == RecordsOfKey(articlereplyfeedbacks', key)
         IN /\ Cardinality(after) = 1
            /\ before \subseteq after
            /\ \A id \in after :
                 /\ articlereplyfeedbacks'[id].score = l.vote
                 /\ articlereplyfeedbacks'[id].comment = l.comment
                 /\ articlereplyfeedbacks'[id].updatedAt = l.now
                 /\ articlereplyfeedbacks'[id].createdAt =
                      IF before = {} THEN l.now
                      ELSE articlereplyfeedbacks[id].createdAt
  /\ \A id \in DOMAIN articlereplyfeedbacks :
       (~ \E c \in Calls : UpsertedBy(c) /\ calls[c].id = id) =>
         /\ articlereplyfeedbacks'[id].score = articlereplyfeedbacks[id].score
         /\ articlereplyfeedbacks'[id].comment = articlereplyfeedbacks[id].comment
         /\ articlereplyfeedbacks'[id].updatedAt = articlereplyfeedbacks[id].updatedAt
         /\ articlereplyfeedbacks'[id].createdAt = articlereplyfeedbacks[id].createdAt

\* C2: every upsert of a key leaves exactly one record for it, carrying that
\* vote's score, comment and timestamp as updatedAt, and as createdAt the
\* timestamp of the vote that created it; no other step changes these fields,
\* no vote adds a second record for the key and no step deletes a record.
C2_UpsertUniqueness == [][C2_Step]_vars

\* A second vote of the key has just been applied: one record, created
\* earlier, updated now, with the second vote's comment.
C2_Witness ==
  \E c \in Calls :
    /\ calls[c].pc = "load"
    /\ calls[c].result = "updated"
    /\ calls[c].comment = "c"
    /\ Cardinality(DOMAIN articlereplyfeedbacks) = 1
    /\ articlereplyfeedbacks[calls[c].id].createdAt
         < articlereplyfeedbacks[calls[c].id].updatedAt
    /\ articlereplyfeedbacks[calls[c].id].updatedAt = calls[c].now
    /\ articlereplyfeedbacks[calls[c].id].comment = "c"
    /\ articlereplyfeedbacks[calls[c].id].score = calls[c].vote

C4_Step ==
  \A c \in Calls :
    (UpdatedBy(c) /\ ~calls[c].direct /\ ~calls[c].overlapped) =>
      EntryCounts(articles', calls[c].articleId, calls[c].replyId)
        = StoredCounts(articlereplyfeedbacks', calls[c].articleId,
                       calls[c].replyId)

\* C4: a request that completes, and between whose reload and scripted update
\* no other upsert on the pair was applied, leaves the entry's counts equal to
\* the NORMAL +1 / -1 tallies of the stored records, whatever they were before.
C4_Reconciliation == [][C4_Step]_vars

\* A request has returned that found the entry's counts different from the
\* stored tallies (an earlier request failed after its upsert, or wrote from
\* an older reload) and whose own window was not overlapped.
C4_Witness ==
  \E c \in Calls : calls[c].pc = "done" /\ calls[c].reconciled

\* The invocation is in the author back-fill (lookups or patch).
Backfilling(cs, c) == cs[c].pc \in {"lookup", "patch"}

AuthorsOf(doc) == <<doc.replyUserId, doc.articleReplyUserId>>

C7_Inv ==
  \A c \in Calls :
    Backfilling(calls, c) =>
      /\ calls[c].result = "created"
      /\ \A d \in Calls :
           (d # c /\ Backfilling(calls, d)) => calls[d].id # calls[c].id

C7_Step ==
  /\ \A c \in Calls :
       (~Backfilling(calls, c) /\ Backfilling(calls', c)) =>
         /\ calls'[c].id \notin DOMAIN articlereplyfeedbacks
         /\ calls'[c].id \in DOMAIN articlereplyfeedbacks'
  /\ \A id \in DOMAIN articlereplyfeedbacks :
       AuthorsOf(articlereplyfeedbacks'[id]) # AuthorsOf(articlereplyfeedbacks[id]) =>
         /\ AuthorsOf(articlereplyfeedbacks[id]) = <<Unset, Unset>>
         /\ \E c \in Calls :
              /\ calls[c].pc = "patch"
              /\ calls'[c].pc = "load"
              /\ calls[c].id = id
              /\ calls[c].result = "created"
  /\ \A c \in Calls :
       (UpdatedBy(c) /\ calls[c].result = "created") =>
         AuthorsOf(articlereplyfeedbacks[calls[c].id])
           = << replies[calls[c].replyId].userId,
                FindArticleReply(articles[calls[c].articleId].articleReplies,
                                 calls[c].replyId)[1].userId >>

\* C7: only a request whose upsert created the record of its key (so, records
\* never being deleted, at most one per key) performs the lookups and the
\* patch, and never two at once for a key; when that request returns, both
\* author fields are set; once set they never change, and they change only
\* by that request's patch.
C7_BackfillOnce == []C7_Inv /\ [][C7_Step]_vars

\* A later vote of the key took the update path while the first one has
\* returned and the record carries both author ids.
C7_Witness ==
  \E c, d \in Calls :
    /\ c # d
    /\ calls[d].pc = "done"
    /\ calls[c].pc = "load"
    /\ calls[c].result = "updated"
    /\ AuthorsOf(articlereplyfeedbacks[calls[c].id])
         = <<"author-R1", "connector-R1">>

C8_Inv ==
  \A c \in Calls :
    (InFlight(c) /\ ~calls[c].direct) => assertUser(calls[c].user)

C8_Step ==
  \A c \in Calls :
    (calls[c].pc = "idle" /\ calls'[c].pc = "failed") =>
      /\ calls'[c].err = "Unauthenticated"
      /\ articlereplyfeedbacks' = articlereplyfeedbacks
      /\ articles' = articles

\* C8: a request without an authenticated user never gets past its start: it
\* fails there with Unauthenticated, and that step leaves the feedback store
\* and the article document as they were.
C8_Unauthenticated == []C8_Inv /\ [][C8_Step]_vars

\* A request failed as unauthenticated after an earlier vote had been recorded
\* and counted.
C8_Witness ==
  \E c \in Calls :
    /\ calls[c].pc = "failed"
    /\ calls[c].err = "Unauthenticated"
    /\ DOMAIN articlereplyfeedbacks # {}
    /\ EntryCounts(articles, "A1", "R1") # <<0, 0>>

C9_Inv ==
  \A c \in Calls :
    ( /\ ~calls[c].direct
      /\ calls[c].pc \in {"lookup", "patch", "load", "project"}
      /\ calls[c].result = "created"
      /\ NoEntry(calls[c].articleId, calls[c].replyId) ) =>
        /\ calls[c].pc = "lookup"
        /\ AuthorsOf(articlereplyfeedbacks[calls[c].id]) = <<Unset, Unset>>

C9_Step ==
  \A c \in Calls :
    ( /\ calls[c].pc = "lookup"
      /\ calls'[c].pc # "lookup"
      /\ calls'[c].err # "StorageError"
      /\ NoEntry(calls[c].articleId, calls[c].replyId) ) =>
        /\ calls'[c].pc = "failed"
        /\ calls'[c].err = "NotFound"
        /\ articlereplyfeedbacks' = articlereplyfeedbacks
        /\ calls[c].id \in DOMAIN articlereplyfeedbacks
        /\ AuthorsOf(articlereplyfeedbacks[calls[c].id]) = <<Unset, Unset>>
        /\ articles' = articles

\* C9: a first vote for a replyId that the article's reply list does not hold
\* fails with NotFound once its lookups answer; the record its upsert inserted
\* stays, with replyUserId and articleReplyUserId unset, and the request goes
\* on neither to the patch nor to the projector.
C9_NotFoundKeepsRecord == []C9_Inv /\ [][C9_Step]_vars

\* The first vote on R3 has failed with NotFound and its record is stored,
\* without author ids.
C9_Witness ==
  \E c \in Calls :
    /\ calls[c].pc = "failed"
    /\ calls[c].err = "NotFound"
    /\ \E id \in DOMAIN articlereplyfeedbacks :
         /\ articlereplyfeedbacks[id].replyId = "R3"
         /\ AuthorsOf(articlereplyfeedbacks[id]) = <<Unset, Unset>>
    /\ EntryCounts(articles, "A1", "R3") = <<>>

\* The counts a returned request was given.
ReturnedCounts(cs, c) ==
  << cs[c].ret[1].entry.positiveFeedbackCount,
     cs[c].ret[1].entry.negativeFeedbackCount >>

C11_Step ==
  /\ \A c \in Calls :
       ( /\ UpsertedBy(c)
         /\ calls[c].id \in DOMAIN articlereplyfeedbacks
         /\ articlereplyfeedbacks[calls[c].id].score = calls[c].vote
         /\ articlereplyfeedbacks[calls[c].id].comment = calls[c].comment ) =>
           /\ articlereplyfeedbacks' =
                [articlereplyfeedbacks EXCEPT
                   ![calls[c].id].updatedAt = calls[c].now]
           /\ calls'[c].pc = "load"
  /\ \A c \in Calls :
       (calls[c].repeats /\ InFlight(c) /\ calls'[c].repeats) =>
         articlereplyfeedbacks'[calls[c].id] = articlereplyfeedbacks[calls[c].id]
  /\ \A c \in Calls :
       (UpdatedBy(c) /\ calls[c].repeats) =>
         LET a == calls[c].articleId
             r == calls[c].replyId
             first == lastWrite[<<a, r>>].by
         IN /\ calls[first].pc = "done"
            /\ EntryCounts(articles', a, r) = ReturnedCounts(calls, first)
            /\ ReturnedCounts(calls', c) = ReturnedCounts(calls, first)
            /\ articles' = articles

\* C11: a request that repeats the vote and comment stored under its key
\* changes nothing of that record but updatedAt and takes the update path (no
\* back-fill); when it follows a returned request on the pair with no other
\* request on the pair in between or alongside, the record stays so until it
\* ends, and its recount writes and returns the counts the earlier one wrote.
C11_Idempotent == [][C11_Step]_vars

\* The same vote was issued twice, one request after the other: both have
\* returned, the record was created by the first and updated by the second.
C11_Witness ==
  \E c \in Calls :
    /\ calls[c].pc = "done"
    /\ calls[c].repeats
    /\ ReturnedCounts(calls, c) = <<1, 0>>
    /\ \E id \in DOMAIN articlereplyfeedbacks :
         /\ articlereplyfeedbacks[id].createdAt
              < articlereplyfeedbacks[id].updatedAt
         /\ articlereplyfeedbacks[id].comment = "c"
         /\ AuthorsOf(articlereplyfeedbacks[id]) # <<Unset, Unset>>

\* The record is stored without author ids and no request is in the back-fill
\* for it: the request that created it has failed there.
Orphan(fbs, cs, id) ==
  /\ id \in DOMAIN fbs
  /\ AuthorsOf(fbs[id]) = <<Unset, Unset>>
  /\ \A c \in Calls : Backfilling(cs, c) => cs[c].id # id

C16_Step ==
  /\ \A c \in Calls :
       ( /\ calls[c].pc = "lookup"
         /\ calls'[c].pc = "failed"
         /\ calls'[c].err = "NotFound" ) =>
           Orphan(articlereplyfeedbacks', calls', calls[c].id)
  /\ \A id \in DOMAIN articlereplyfeedbacks :
       Orphan(articlereplyfeedbacks, calls, id) =>
         Orphan(articlereplyfeedbacks', calls', id)
  /\ \A c \in Calls :
       (UpsertedBy(c) /\ Orphan(articlereplyfeedbacks, calls, calls[c].id)) =>
         /\ calls'[c].result \in {"updated", "noop"}
         /\ calls'[c].pc = "load"

\* C16: when the back-fill of a first vote fails because the reply entry is not
\* found, the record is left without author ids and with no request filling
\* them in; from then on every vote of that key updates the record and goes on
\* to the reload without the back-fill, and in every later state the record
\* still has replyUserId and articleReplyUserId unset.
C16_NeverBackfilled == [][C16_Step]_vars

\* The first vote on R3 failed with NotFound; a later vote of the same key has
\* updated the record and is at its reload; the author ids are unset.
C16_Witness ==
  \E c, d \in Calls :
    /\ d < c
    /\ calls[d].pc = "failed"
    /\ calls[d].err = "NotFound"
    /\ calls[c].pc = "load"
    /\ calls[c].replyId = "R3"
    /\ calls[c].result = "updated"
    /\ Orphan(articlereplyfeedbacks, calls, calls[c].id)

\* The NORMAL +1 / -1 tallies of a set of feedback documents.
SnapshotCounts(docs) ==
  << Cardinality({d \in docs : d.status = "NORMAL" /\ d.score = 1}),
     Cardinality({d \in docs : d.status = "NORMAL" /\ d.score = -1}) >>

C13_Inv ==
  \A c \in Calls :
    /\ calls[c].pc = "done" => Len(calls[c].ret) = 1
    /\ calls[c].pc = "project" =>
         calls[c].params = SnapshotCounts(calls[c].snapshot)

C13_Step ==
  \A c \in Calls :
    LET l == calls[c]
        out == Script(articles[l.articleId], l.replyId,
                      l.params[1], l.params[2])
    IN /\ (l.pc # "done" /\ calls'[c].pc = "done") =>
            /\ l.pc = "project"
            /\ out[1] = "index"
            /\ articles' = [articles EXCEPT ![l.articleId] = out[2]]
            /\ calls'[c].ret[1].articleId = l.articleId
            /\ calls'[c].ret[1].entry.replyId = l.replyId
            /\ ReturnedCounts(calls', c) = SnapshotCounts(l.snapshot)
            /\ calls'[c].ret[1].entry
                 = FindArticleReply(articles'[l.articleId].articleReplies,
                                    l.replyId)[1]
       /\ (l.pc = "project" /\ calls'[c].pc # "project" /\ out[1] # "index") =>
            /\ calls'[c].pc = "failed"
            /\ articles' = articles

\* C13: a request returns only from the step in which its scripted update was
\* applied and reported 'updated'; what it returns is the entry of the
\* requested replyId as that update left it, with the requested articleId, and
\* the entry's counts are the tallies of the records the request reloaded. A
\* scripted update reporting anything else makes the request throw.
C13_ReturnAfterUpdated == []C13_Inv /\ [][C13_Step]_vars

\* A request for (A1, R1) has returned the entry with one positive feedback.
C13_Witness ==
  \E c \in Calls :
    /\ calls[c].pc = "done"
    /\ calls[c].ret[1].articleId = "A1"
    /\ calls[c].ret[1].entry.replyId = "R1"
    /\ calls[c].ret[1].entry.userId = "connector-R1"
    /\ ReturnedCounts(calls, c) = <<1, 0>>
    /\ EntryCounts(articles, "A1", "R1") = <<1, 0>>

----------------------------------------------------------------------------
(* Properties of concurrent requests, under SpecRace *)

\* No request on the pair is between its start and its end.
Quiescent(p) ==
  \A c \in Calls :
    InFlight(c) => <<calls[c].articleId, calls[c].replyId>> # p

CountsMatch(p) ==
  EntryCounts(articles, p[1], p[2])
    = StoredCounts(articlereplyfeedbacks, p[1], p[2])

\* C3 as claimed: in every state after a successful projector write in which
\* no request on the pair is in progress, the entry's counts equal the tallies
\* of the stored records.
C3_Original ==
  \A p \in Pairs :
    (lastWrite[p].by # 0 /\ Quiescent(p)) => CountsMatch(p)

\* C3, amended: the same, provided no upsert on the pair was applied after the
\* reload from which the pair's latest projector write was computed.
C3_FreshCounts ==
  \A p \in Pairs :
    (lastWrite[p].by # 0 /\ Quiescent(p) /\ lastWrite[p].fresh) =>
      CountsMatch(p)

\* U1's -1 and U2's +1 on (A1, R1) are stored and counted: 1 and 1.
C3_Witness ==
  /\ lastWrite[<<"A1", "R1">>].by # 0
  /\ lastWrite[<<"A1", "R1">>].fresh
  /\ Quiescent(<<"A1", "R1">>)
  /\ \E i, j \in DOMAIN articlereplyfeedbacks :
       /\ articlereplyfeedbacks[i].userId = "U1"
       /\ articlereplyfeedbacks[i].replyId = "R1"
       /\ articlereplyfeedbacks[i].score = -1
       /\ articlereplyfeedbacks[j].userId = "U2"
       /\ articlereplyfeedbacks[j].replyId = "R1"
       /\ articlereplyfeedbacks[j].score = 1
       /\ articlereplyfeedbacks[j].status = "NORMAL"
  /\ EntryCounts(articles, "A1", "R1") = <<1, 1>>

\* C6: the counts of each reply entry are those returned to the request whose
\* scripted update wrote that entry last: an update of another entry of the
\* same article, applied before, between or after, takes nothing away from it.
C6_NoLostUpdate ==
  \A p \in Pairs :
    lastWrite[p].by # 0 =>
      LET c == lastWrite[p].by IN
      /\ calls[c].pc = "done"
      /\ calls[c].ret[1].articleId = p[1]
      /\ calls[c].ret[1].entry.replyId = p[2]
      /\ EntryCounts(articles, p[1], p[2])
           = << calls[c].ret[1].entry.positiveFeedbackCount,
                calls[c].ret[1].entry.negativeFeedbackCount >>

\* Both R1 and R2 were written, by different requests, one of them while the
\* other request's update was pending; both entries carry counts.
C6_Witness ==
  /\ lastWrite[<<"A1", "R1">>].by # 0
  /\ lastWrite[<<"A1", "R2">>].by # 0
  /\ lastWrite[<<"A1", "R1">>].racing \/ lastWrite[<<"A1", "R2">>].racing
  /\ EntryCounts(articles, "A1", "R1") # <<0, 0>>
  /\ EntryCounts(articles, "A1", "R2") # <<0, 0>>

\* The id under which a feedback document is stored.
IdOf(doc) ==
  getArticleReplyFeedbackId(doc.articleId, doc.replyId, doc.userId, doc.appId)

\* The record under the request's id carries what the request's upsert wrote.
OwnWrite(fbs, l) ==
  /\ l.id \in DOMAIN fbs
  /\ fbs[l.id].score = l.vote
  /\ fbs[l.id].comment = l.comment
  /\ fbs[l.id].updatedAt = l.now

C14_Inv ==
  \A c \in Calls :
    (~calls[c].direct /\ calls[c].pc = "project") =>
      \E doc \in calls[c].snapshot : IdOf(doc) = calls[c].id

C14_Step ==
  \A c \in Calls :
    LET l == calls[c] IN
    /\ UpsertedBy(c) => OwnWrite(articlereplyfeedbacks', l)
    /\ l.pc \in {"lookup", "patch", "load"} =>
         /\ l.id \in DOMAIN articlereplyfeedbacks'
         /\ IdOf(articlereplyfeedbacks'[l.id]) = l.id
         /\ (OwnWrite(articlereplyfeedbacks, l)
               /\ ~OwnWrite(articlereplyfeedbacks', l)) =>
              \E d \in Calls :
                d # c /\ UpsertedBy(d) /\ calls[d].id = l.id
    /\ (~l.direct /\ l.pc # "project" /\ calls'[c].pc = "project") =>
         /\ l.pc = "load"
         /\ l.result \in {"created", "updated", "noop"}
         /\ articlereplyfeedbacks[l.id] \in calls'[c].snapshot
         /\ calls'[c].snapshot =
              { articlereplyfeedbacks[i] :
                  i \in FeedbackIdsOf(l.articleId, l.replyId) }

\* C14: the records a request hands to the projector were loaded after its own
\* upsert was applied, and among them is the record of its own key, as it is
\* stored at the reload: from the request's upsert on, that record carries
\* the request's score, comment and timestamp until another request's upsert
\* on the same key overwrites them.
C14_ReadYourWrite == []C14_Inv /\ [][C14_Step]_vars

\* The request that created U1's record with +1 has reloaded it after another
\* request of U1 had overwritten the score with -1.
C14_Witness ==
  \E c \in Calls :
    /\ calls[c].pc = "project"
    /\ calls[c].result = "created"
    /\ calls[c].vote = 1
    /\ \E doc \in calls[c].snapshot :
         IdOf(doc) = calls[c].id /\ doc.score = -1

\* Everything of a feedback document but score, comment and updatedAt.
RecordFrame(doc) ==
  [doc EXCEPT !.score = 0, !.comment = Null, !.updatedAt = 0]

C15_Step ==
  \A c \in Calls :
    (UpsertedBy(c) /\ calls[c].id \in DOMAIN articlereplyfeedbacks) =>
      /\ DOMAIN articlereplyfeedbacks' = DOMAIN articlereplyfeedbacks
      /\ \A id \in DOMAIN articlereplyfeedbacks :
           IF id = calls[c].id
           THEN RecordFrame(articlereplyfeedbacks'[id])
                  = RecordFrame(articlereplyfeedbacks[id])
           ELSE articlereplyfeedbacks'[id] = articlereplyfeedbacks[id]
      /\ calls'[c].pc = "load"

\* C15: the upsert of a vote whose record exists changes at most score,
\* comment and updatedAt of that record: status, createdAt, articleId, replyId,
\* userId, appId, replyUserId and articleReplyUserId keep their values, also
\* when the acting user's default status is no longer the one the record was
\* created with; the request then goes on to the reload, not to the back-fill.
C15_RevoteFrame == [][C15_Step]_vars

\* A record created BLOCKED was voted again by its user, now not blocked, at a
\* later time: it is still BLOCKED and carries its author ids.
C15_Witness ==
  \E c \in Calls :
    /\ calls[c].pc = "load"
    /\ calls[c].result = "updated"
    /\ getContentDefaultStatus(calls[c].user) = "NORMAL"
    /\ articlereplyfeedbacks[calls[c].id].status = "BLOCKED"
    /\ articlereplyfeedbacks[calls[c].id].createdAt < calls[c].now
    /\ articlereplyfeedbacks[calls[c].id].updatedAt = calls[c].now
    /\ AuthorsOf(articlereplyfeedbacks[calls[c].id]) # <<Unset, Unset>>

\* C17: in every reachable state, requests of one identity running
\* concurrently included (each takes its timestamp before it sends its
\* upsert), every feedback record has updatedAt >= createdAt.
C17_UpdatedAfterCreated ==
  \A id \in DOMAIN articlereplyfeedbacks :
    articlereplyfeedbacks[id].updatedAt >= articlereplyfeedbacks[id].createdAt

\* C18: in every reachable state, whatever the interleaving (scripted updates
\* computed from reloads that later upserts have overtaken included), both
\* counts of every reply entry are >= 0 and their sum is at most the number
\* of feedback records now stored for the entry's (articleId, replyId).
C18_CountsBounded ==
  \A p \in Pairs :
    LET counts == EntryCounts(articles, p[1], p[2]) IN
    counts # <<>> =>
      /\ counts[1] >= 0
      /\ counts[2] >= 0
      /\ counts[1] + counts[2] <= Cardinality(FeedbackIdsOf(p[1], p[2]))

\* R1's entry keeps the +1 of a reload that an upsert has overtaken: two
\* records are stored, the entry counts one positive and no negative, and the
\* stored tallies are others.
C18_Witness ==
  /\ lastWrite[<<"A1", "R1">>].by # 0
  /\ ~lastWrite[<<"A1", "R1">>].fresh
  /\ Quiescent(<<"A1", "R1">>)
  /\ Cardinality(FeedbackIdsOf("A1", "R1")) = 2
  /\ EntryCounts(articles, "A1", "R1") = <<1, 0>>
  /\ ~CountsMatch(<<"A1", "R1">>)

----------------------------------------------------------------------------
(* Properties of the document id, under SpecIds *)

\* C12: getArticleReplyFeedbackId is injective: requests that differ in
\* articleId, replyId, userId or appId never get the same document id, and so
\* the record a request's upsert wrote under its id is the record of its own
\* (articleId, replyId, userId, appId) and of nobody else's.
C12_Injective ==
  /\ \A c, d \in Calls :
       (InFlight(c) /\ InFlight(d) /\ calls[c].id = calls[d].id) =>
         TupleOf(calls[c]) = TupleOf(calls[d])
  /\ \A c \in Calls :
       Upserted(c) =>
         KeyOf(articlereplyfeedbacks[calls[c].id]) = TupleOf(calls[c])

====
